---- MODULE Spec2Model ----
(***************************************************************************)
(* A model of src/src/05-objects-tasks.js: the Rectangle value object, the *)
(* getJSON / fromJSON codec and the CssBuilder selector builder behind the *)
(* cssSelectorBuilder facade.                                              *)
(*                                                                         *)
(* JavaScript strings are TLA+ strings (\o is concatenation).  A thrown    *)
(* Error is the outcome of a call, recorded in ret.outcome.                *)
(***************************************************************************)
EXTENDS Integers, Sequences, FiniteSets, TLC

VARIABLES
    rect,    \* the Rectangle object: its width and height fields
    made,    \* history: the arguments rect was constructed with
    area,    \* what the last getArea() returned
    rop,     \* the last operation on rect
    jx,      \* the value given to getJSON
    jproto,  \* the proto given to fromJSON
    json,    \* the text between getJSON and fromJSON
    jobj,    \* what fromJSON returned
    jpc,     \* how far the round trip has come
    heap,    \* the CssBuilder objects created so far, in creation order
    ret,     \* the last builder call: its receiver, arguments and result
    calls,   \* number of builder calls made so far
    log      \* history: per object, the fragment calls accepted since it was
             \* last emptied, as <<func, value>> pairs in call order

bvars == <<heap, ret, calls, log>>
rvars == <<rect, made, area, rop>>
jvars == <<jx, jproto, json, jobj, jpc>>
vars == <<bvars, rvars, jvars>>

---------------------------------------------------------------------------
(* Bounds of the exploration *)

\* at most this many CssBuilder objects are created
MaxHandles == 3
\* at most this many builder calls are made
MaxCalls == 4
\* at most this many calls are made in one chain
MaxChain == 7

\* the fields of a Rectangle are integers of -MaxDim..MaxDim
MaxDim == 2
\* a value given to getJSON has at most this many properties
MaxProps == 2

\* the strings passed as selector parts
Values == {"a", "b"}
\* the strings passed where several builders are in play
MultiValues == {"a"}
\* the combinator tokens passed to combine
Combinators == {"+"}

---------------------------------------------------------------------------
(* class CssBuilder *)

\* JavaScript's null
null == "null"

\* if (x) for a string-or-null x: null and '' are falsy
Truthy(x) == x # null /\ x # ""

\* the state initAll() leaves in this
initAll ==
    [ tag           |-> null,
      classes       |-> <<>>,
      identificator |-> null,
      attributes    |-> <<>>,
      psClasses     |-> <<>>,
      psElement     |-> null,
      selector      |-> "",
      order         |-> 0 ]

\* constructor(): this.initAll()
constructor == initAll

\* arr.join(sep)
RECURSIVE join(_, _)
join(arr, sep) ==
    IF Len(arr) = 0 THEN ""
    ELSE IF Len(arr) = 1 THEN arr[1]
    ELSE arr[1] \o sep \o join(Tail(arr), sep)

\* arr.map((el) => `${prefix}${el}`)
mapPrefix(arr, prefix) == [i \in 1..Len(arr) |-> prefix \o arr[i]]

\* a rendering in the order of the doc comment (element#id.class[attr]...)
renderSelectorIdFirst(s) ==
    LET s1 == IF Truthy(s.tag) THEN s.tag ELSE ""
        s2 == IF Truthy(s.identificator)
              THEN s1 \o "#" \o s.identificator ELSE s1
        s3 == IF Len(s.classes) # 0
              THEN s2 \o join(mapPrefix(s.classes, "."), "") ELSE s2
        s4 == IF Len(s.attributes) # 0
              THEN s3 \o "[" \o join(s.attributes, "][") \o "]" ELSE s3
        s5 == IF Len(s.psClasses) # 0
              THEN s4 \o join(mapPrefix(s.psClasses, ":"), "") ELSE s4
        s6 == IF Truthy(s.psElement)
              THEN s5 \o "::" \o s.psElement ELSE s5
    IN  s6

\* updateSelector(): the string it computes from the fragments of s
renderSelector(s) ==
    LET s1 == IF Truthy(s.tag) THEN s.tag ELSE ""
        s2 == IF Len(s.attributes) # 0
              THEN s1 \o "[" \o join(s.attributes, "][") \o "]" ELSE s1
        s3 == IF Truthy(s.identificator)
              THEN s2 \o "#" \o s.identificator ELSE s2
        s4 == IF Len(s.classes) # 0
              THEN s3 \o join(mapPrefix(s.classes, "."), "") ELSE s3
        s5 == IF Len(s.psClasses) # 0
              THEN s4 \o join(mapPrefix(s.psClasses, ":"), "") ELSE s4
        s6 == IF Truthy(s.psElement)
              THEN s5 \o "::" \o s.psElement ELSE s5
    IN  s6

\* an updateSelector that leaves the cached string as it is
updateSelectorStale(s) == s

\* updateSelector(): this.selector = selector
updateSelector(s) == [s EXCEPT !.selector = renderSelector(s)]

\* a checkOrder that never throws
checkOrderNeverThrows(s, order) == FALSE

\* a checkOrder that also rejects the rank used last
checkOrderStrict(s, order) == s.order >= order

\* checkOrder(order): whether it throws
checkOrderThrows(s, order) == s.order > order

\* a checkOrder that does not record the rank
checkOrderForgets(s, order) == s

\* checkOrder(order) when it does not throw: this.order = order
checkOrder(s, order) == [s EXCEPT !.order = order]

\* the result of a method: the state it leaves in this, and how it ended
Ok(s)      == [st |-> s, outcome |-> "ok"]
Thrown(s, e) == [st |-> s, outcome |-> e]

\* an onlyOneError without its initAll()
onlyOneErrorKeeps(s) == Thrown(s, "onlyOneError")

\* a checkOrder that calls initAll() before it throws
orderErrorDiscards(s) == Thrown(initAll, "orderError")

\* onlyOneError(): this.initAll(), then throw
onlyOneError(s) == Thrown(initAll, "onlyOneError")

\* the throw of checkOrder: this is left as it is
orderError(s) == Thrown(s, "orderError")

\* an element that checks the order before the repetition
elementOrderFirst(s, value) ==
    IF checkOrderThrows(s, 1) THEN orderError(s)
    ELSE IF Truthy(s.tag) THEN onlyOneError(s)
    ELSE Ok(updateSelector([checkOrder(s, 1) EXCEPT !.tag = value]))

element(s, value) ==
    IF Truthy(s.tag) THEN onlyOneError(s)
    ELSE IF checkOrderThrows(s, 1) THEN orderError(s)
    ELSE Ok(updateSelector([checkOrder(s, 1) EXCEPT !.tag = value]))

id(s, value) ==
    IF Truthy(s.identificator) THEN onlyOneError(s)
    ELSE IF checkOrderThrows(s, 2) THEN orderError(s)
    ELSE Ok(updateSelector([checkOrder(s, 2) EXCEPT !.identificator = value]))

\* a class that pushes its value before it checks the order
classPushFirst(s, value) ==
    IF checkOrderThrows(s, 3)
    THEN orderError([s EXCEPT !.classes = Append(@, value)])
    ELSE Ok(updateSelector([checkOrder(s, 3) EXCEPT
                               !.classes = Append(@, value)]))

\* if (!this.classes) never holds: an array, empty or not, is truthy
class(s, value) ==
    IF checkOrderThrows(s, 3) THEN orderError(s)
    ELSE Ok(updateSelector([checkOrder(s, 3) EXCEPT
                               !.classes = Append(@, value)]))

\* an attr that pushes its value to this.classes
attrIntoClasses(s, value) ==
    IF checkOrderThrows(s, 4) THEN orderError(s)
    ELSE Ok(updateSelector([checkOrder(s, 4) EXCEPT
                               !.classes = Append(@, value)]))

attr(s, value) ==
    IF checkOrderThrows(s, 4) THEN orderError(s)
    ELSE Ok(updateSelector([checkOrder(s, 4) EXCEPT
                               !.attributes = Append(@, value)]))

pseudoClass(s, value) ==
    IF checkOrderThrows(s, 5) THEN orderError(s)
    ELSE Ok(updateSelector([checkOrder(s, 5) EXCEPT
                               !.psClasses = Append(@, value)]))

pseudoElement(s, value) ==
    IF Truthy(s.psElement) THEN onlyOneError(s)
    ELSE IF checkOrderThrows(s, 6) THEN orderError(s)
    ELSE Ok(updateSelector([checkOrder(s, 6) EXCEPT !.psElement = value]))

\* the six fragment-adding methods, by name
FragOps == {"element", "id", "class", "attr", "pseudoClass", "pseudoElement"}

\* cssBuilder[func](value) for a fragment-adding func
invoke(func, s, value) ==
    CASE func = "element"       -> element(s, value)
      [] func = "id"            -> id(s, value)
      [] func = "class"         -> class(s, value)
      [] func = "attr"          -> attr(s, value)
      [] func = "pseudoClass"   -> pseudoClass(s, value)
      [] func = "pseudoElement" -> pseudoElement(s, value)

\* a stringify without its initAll()
stringifyKeeps(s) == s

\* stringify(): const { selector } = this; this.initAll(); return selector
stringifyResult(s) == s.selector
stringifyState(s)  == initAll

\* a combine whose template has no spaces
combineNoSpaces(hp, this, selector1, combinator, selector2) ==
    LET left   == hp[selector1].selector
        hp1    == [hp EXCEPT ![selector1] = initAll]
        right  == hp1[selector2].selector
        hp2    == [hp1 EXCEPT ![selector2] = initAll]
    IN  [hp2 EXCEPT ![this].selector = left \o combinator \o right]

\* a combine that calls this.initAll() before it stores the joined string
combineClearsThis(hp, this, selector1, combinator, selector2) ==
    LET left   == hp[selector1].selector
        hp1    == [hp EXCEPT ![selector1] = initAll]
        right  == hp1[selector2].selector
        hp2    == [hp1 EXCEPT ![selector2] = initAll]
    IN  [hp2 EXCEPT ![this] =
            [initAll EXCEPT !.selector =
                left \o " " \o combinator \o " " \o right]]

\* combine(selector1, combinator, selector2) on the object at index this:
\* selector1.stringify() runs first, then selector2.stringify(), then the
\* assignment to this.selector; the three objects may be the same one
combine(hp, this, selector1, combinator, selector2) ==
    LET left   == stringifyResult(hp[selector1])
        hp1    == [hp EXCEPT ![selector1] = stringifyState(@)]
        right  == stringifyResult(hp1[selector2])
        hp2    == [hp1 EXCEPT ![selector2] = stringifyState(@)]
    IN  [hp2 EXCEPT ![this].selector =
                       left \o " " \o combinator \o " " \o right]

---------------------------------------------------------------------------
(* function Rectangle *)

Dims == (0 - MaxDim)..MaxDim

\* new Rectangle(width, height): the fields it stores
Rectangle(width, height) == [width |-> width, height |-> height]

\* a getArea that returns the product of the constructor's arguments
getAreaCached(r) == made.width * made.height

\* this.getArea = () => this.width * this.height
getArea(r) == r.width * r.height

\* the Rectangle is not in use
RectIdle ==
    /\ rect = Rectangle(0, 0)
    /\ made = Rectangle(0, 0)
    /\ area = 0
    /\ rop = "idle"

\* const r = new Rectangle(width, height)
New(width, height) ==
    /\ rect' = Rectangle(width, height)
    /\ made' = Rectangle(width, height)
    /\ rop' = "new"
    /\ UNCHANGED <<area, bvars, jvars>>

\* r.width = width
SetWidth(width) ==
    /\ rop # "idle"
    /\ rect' = [rect EXCEPT !.width = width]
    /\ rop' = "setWidth"
    /\ UNCHANGED <<made, area, bvars, jvars>>

\* r.height = height
SetHeight(height) ==
    /\ rop # "idle"
    /\ rect' = [rect EXCEPT !.height = height]
    /\ rop' = "setHeight"
    /\ UNCHANGED <<made, area, bvars, jvars>>

\* r.getArea()
GetArea ==
    /\ rop # "idle"
    /\ area' = getArea(rect)
    /\ rop' = "getArea"
    /\ UNCHANGED <<rect, made, bvars, jvars>>

---------------------------------------------------------------------------
(* getJSON and fromJSON *)

\* A JavaScript value: k is its kind, and n, s, b or o holds a number, a
\* string, a boolean or the properties of an object (in property order)
Val(k, n, s, b, o) == [k |-> k, n |-> n, s |-> s, b |-> b, o |-> o]
Number(n)  == Val("number", n, "", FALSE, <<>>)
String(s)  == Val("string", 0, s, FALSE, <<>>)
Boolean(b) == Val("boolean", 0, "", b, <<>>)
Null       == Val("null", 0, "", FALSE, <<>>)
Undefined  == Val("undefined", 0, "", FALSE, <<>>)
Object(o)  == Val("object", 0, "", FALSE, o)
Prop(key, val) == [key |-> key, val |-> val]

\* JSON text, as the sequence of its tokens
Tok(t, s, n) == [t |-> t, s |-> s, n |-> n]
Punct(t) == Tok(t, "", 0)

\* JSON.stringify: a property whose value is undefined is left out
RECURSIVE JSONstringify(_), stringifyMembers(_)
stringifyMembers(props) ==
    IF props = <<>> THEN <<>>
    ELSE <<Tok("string", props[1].key, 0), Punct(":")>>
         \o JSONstringify(props[1].val)
         \o (IF Len(props) > 1
             THEN <<Punct(",")>> \o stringifyMembers(Tail(props))
             ELSE <<>>)
JSONstringify(v) ==
    CASE v.k = "number"  -> <<Tok("number", "", v.n)>>
      [] v.k = "string"  -> <<Tok("string", v.s, 0)>>
      [] v.k = "boolean" -> <<Punct(IF v.b THEN "true" ELSE "false")>>
      [] v.k = "null"    -> <<Punct("null")>>
      [] v.k = "object"  ->
            <<Punct("{")>>
            \o stringifyMembers(SelectSeq(v.o, LAMBDA e : e.val.k # "undefined"))
            \o <<Punct("}")>>

\* obj[key] = val while parsing: a repeated key keeps its place and takes
\* the later value
putProp(props, key, val) ==
    IF \E i \in 1..Len(props) : props[i].key = key
    THEN [i \in 1..Len(props) |->
             IF props[i].key = key THEN Prop(key, val) ELSE props[i]]
    ELSE Append(props, Prop(key, val))

\* JSON.parse: the value that starts at token i and the index after it, or a
\* SyntaxError
Parsed(val, next) == [ok |-> TRUE, val |-> val, next |-> next]
SyntaxError == [ok |-> FALSE, val |-> Undefined, next |-> 0]

RECURSIVE parseValue(_, _), parseMembers(_, _, _)
parseMembers(toks, i, acc) ==
    IF i + 2 > Len(toks) \/ toks[i].t # "string" \/ toks[i + 1].t # ":"
    THEN SyntaxError
    ELSE LET r == parseValue(toks, i + 2)
         IN  IF ~r.ok \/ r.next > Len(toks) THEN SyntaxError
             ELSE LET props == putProp(acc, toks[i].s, r.val)
                  IN  IF toks[r.next].t = ","
                      THEN parseMembers(toks, r.next + 1, props)
                      ELSE IF toks[r.next].t = "}"
                      THEN Parsed(Object(props), r.next + 1)
                      ELSE SyntaxError
parseValue(toks, i) ==
    IF i > Len(toks) THEN SyntaxError
    ELSE CASE toks[i].t = "number" -> Parsed(Number(toks[i].n), i + 1)
           [] toks[i].t = "string" -> Parsed(String(toks[i].s), i + 1)
           [] toks[i].t = "true"   -> Parsed(Boolean(TRUE), i + 1)
           [] toks[i].t = "false"  -> Parsed(Boolean(FALSE), i + 1)
           [] toks[i].t = "null"   -> Parsed(Null, i + 1)
           [] toks[i].t = "{"      ->
                 IF i + 1 <= Len(toks) /\ toks[i + 1].t = "}"
                 THEN Parsed(Object(<<>>), i + 2)
                 ELSE parseMembers(toks, i + 1, <<>>)
           [] OTHER -> SyntaxError

JSONparse(text) ==
    LET r == parseValue(text, 1)
    IN  IF r.ok /\ r.next = Len(text) + 1 THEN r ELSE SyntaxError

\* function getJSON(obj)
getJSON(obj) == JSONstringify(obj)

\* what fromJSON gives back: a value and its prototype, or a thrown error
Returned(val, proto) == [thrown |-> "", val |-> val, proto |-> proto]
Threw(e) == [thrown |-> e, val |-> Undefined, proto |-> ""]

\* the prototype of a value that JSON.parse made
parsedProto(val) == IF val.k = "object" THEN "Object.prototype" ELSE ""

\* a fromJSON without its Object.setPrototypeOf
fromJSONUnbound(proto, text) ==
    LET r == JSONparse(text)
    IN  IF ~r.ok THEN Threw("SyntaxError")
        ELSE Returned(r.val, parsedProto(r.val))

\* function fromJSON(proto, json): Object.setPrototypeOf throws for null,
\* binds proto to an object and leaves any other value as it is
fromJSON(proto, text) ==
    LET r == JSONparse(text)
    IN  IF ~r.ok THEN Threw("SyntaxError")
        ELSE IF r.val.k = "null" THEN Threw("TypeError")
        ELSE IF r.val.k = "object" THEN Returned(r.val, proto)
        ELSE Returned(r.val, parsedProto(r.val))

\* the values of the properties of plain data: primitives, and objects of
\* primitives
Keys == {"width", "height", "radius"}
Primitives == {Number(10), Number(0 - 1), String("s"), Boolean(TRUE), Null}
Inner == {Object(<<>>)} \cup {Object(<<Prop("r", v)>>) : v \in Primitives}

\* the sequences of at most n properties with different keys
PropSeqs(n) ==
    LET seqs == UNION {[1..m -> {Prop(k, v) : k \in Keys,
                                             v \in Primitives \cup Inner}]
                          : m \in 0..n}
    IN  {ps \in seqs : \A i, j \in 1..Len(ps) :
                          i # j => ps[i].key # ps[j].key}

\* the plain data given to getJSON
PlainData == {Object(ps) : ps \in PropSeqs(MaxProps)}

\* the protos given to fromJSON
Protos == {"Circle.prototype", "Rectangle.prototype"}

\* the codec is not in use
CodecIdle ==
    /\ jx = Null
    /\ jproto = ""
    /\ json = <<>>
    /\ jobj = Threw("")
    /\ jpc = "idle"

\* a program is about to send x through getJSON and fromJSON(proto, .)
CodecInit ==
    /\ jx \in PlainData
    /\ jproto \in Protos
    /\ json = <<>>
    /\ jobj = Threw("")
    /\ jpc = "input"

\* json = getJSON(x)
Serialize ==
    /\ jpc = "input"
    /\ json' = getJSON(jx)
    /\ jpc' = "serialized"
    /\ UNCHANGED <<jx, jproto, jobj, bvars, rvars>>

\* the text loses its last token on the way: it is no valid JSON any more
Damage ==
    /\ jpc = "serialized"
    /\ json' = SubSeq(json, 1, Len(json) - 1)
    /\ jpc' = "damaged"
    /\ UNCHANGED <<jx, jproto, jobj, bvars, rvars>>

\* fromJSON(proto, json)
Deserialize ==
    /\ jpc \in {"serialized", "damaged"}
    /\ jobj' = fromJSON(jproto, json)
    /\ jpc' = "parsed"
    /\ UNCHANGED <<jx, jproto, json, bvars, rvars>>

---------------------------------------------------------------------------
(* The calls a program makes *)

Handles == 1..Len(heap)

NoRet == [op |-> "none", this |-> 0, fresh |-> FALSE, arg |-> "",
          left |-> 0, right |-> 0,
          outcome |-> "ok", handle |-> 0, str |-> ""]

\* the history of an object after func(value) ended with outcome
logAfter(lg, func, value, outcome) ==
    IF outcome = "ok" THEN Append(lg, <<func, value>>)
    ELSE IF outcome = "onlyOneError" THEN <<>>
    ELSE lg

\* no builder call was made yet
BuilderInit ==
    /\ heap = <<>>
    /\ ret = NoRet
    /\ calls = 0
    /\ log = <<>>

Init == BuilderInit /\ RectIdle /\ CodecIdle

\* h.func(value) on an object the program holds
Call(h, func, value) ==
    /\ LET r == invoke(func, heap[h], value)
       IN  /\ heap' = [heap EXCEPT ![h] = r.st]
           /\ ret' = [NoRet EXCEPT !.op = func, !.this = h, !.arg = value,
                         !.outcome = r.outcome,
                         !.handle = IF r.outcome = "ok" THEN h ELSE 0]
           /\ log' = [log EXCEPT ![h] = logAfter(@, func, value, r.outcome)]
    /\ calls' = calls + 1
    /\ UNCHANGED <<rvars, jvars>>

\* h.stringify()
Stringify(h) ==
    /\ heap' = [heap EXCEPT ![h] = stringifyState(@)]
    /\ ret' = [NoRet EXCEPT !.op = "stringify", !.this = h,
                  !.str = stringifyResult(heap[h])]
    /\ log' = [log EXCEPT ![h] = <<>>]
    /\ calls' = calls + 1
    /\ UNCHANGED <<rvars, jvars>>

\* h.combine(selector1, combinator, selector2)
Combine(h, selector1, combinator, selector2) ==
    /\ heap' = combine(heap, h, selector1, combinator, selector2)
    /\ ret' = [NoRet EXCEPT !.op = "combine", !.this = h, !.arg = combinator,
                  !.left = selector1, !.right = selector2, !.handle = h]
    /\ log' = [log EXCEPT ![selector1] = <<>>, ![selector2] = <<>>]
    /\ calls' = calls + 1
    /\ UNCHANGED <<rvars, jvars>>

\* a facade that creates one CssBuilder and uses it for every call
FacadeCallShared(func, value) ==
    /\ LET this == IF heap = <<>> THEN Len(heap) + 1 ELSE 1
           r    == invoke(func, IF heap = <<>> THEN constructor ELSE heap[1],
                          value)
       IN  /\ heap' = IF heap = <<>> THEN <<r.st>>
                      ELSE [heap EXCEPT ![1] = r.st]
           /\ ret' = [NoRet EXCEPT !.op = func, !.this = this, !.fresh = TRUE,
                         !.arg = value, !.outcome = r.outcome,
                         !.handle = IF r.outcome = "ok" THEN this ELSE 0]
           /\ log' = IF heap = <<>>
                     THEN <<logAfter(<<>>, func, value, r.outcome)>>
                     ELSE [log EXCEPT ![1] =
                              logAfter(@, func, value, r.outcome)]
    /\ calls' = calls + 1
    /\ UNCHANGED <<rvars, jvars>>

\* cssSelectorBuilder[func](value): new CssBuilder(), then cssBuilder[func]
FacadeCall(func, value) ==
    /\ LET this == Len(heap) + 1
           r    == invoke(func, constructor, value)
       IN  /\ heap' = Append(heap, r.st)
           /\ ret' = [NoRet EXCEPT !.op = func, !.this = this, !.fresh = TRUE,
                         !.arg = value, !.outcome = r.outcome,
                         !.handle = IF r.outcome = "ok" THEN this ELSE 0]
           /\ log' = Append(log, logAfter(<<>>, func, value, r.outcome))
    /\ calls' = calls + 1
    /\ UNCHANGED <<rvars, jvars>>

\* cssSelectorBuilder.stringify(): the new object is reset and returns its
\* string; no reference to it is left, so it never enters the heap
FacadeStringify ==
    /\ heap' = heap
    /\ ret' = [NoRet EXCEPT !.op = "stringify", !.fresh = TRUE,
                  !.str = stringifyResult(constructor)]
    /\ log' = log
    /\ calls' = calls + 1
    /\ UNCHANGED <<rvars, jvars>>

\* cssSelectorBuilder.combine(selector1, combinator, selector2)
FacadeCombine(selector1, combinator, selector2) ==
    /\ LET this == Len(heap) + 1
       IN  /\ heap' = combine(Append(heap, constructor), this,
                              selector1, combinator, selector2)
           /\ ret' = [NoRet EXCEPT !.op = "combine", !.this = this,
                         !.fresh = TRUE, !.arg = combinator,
                         !.left = selector1, !.right = selector2,
                         !.handle = this]
           /\ log' = [Append(log, <<>>) EXCEPT ![selector1] = <<>>,
                                               ![selector2] = <<>>]
    /\ calls' = calls + 1
    /\ UNCHANGED <<rvars, jvars>>

\* a program that holds up to MaxHandles builders and makes any calls on them
Next ==
    \/ \E h \in Handles, func \in FragOps, value \in MultiValues :
           calls < MaxCalls /\ Call(h, func, value)
    \/ \E h \in Handles :
           calls < MaxCalls /\ Stringify(h)
    \/ \E h \in Handles, s1 \in Handles, s2 \in Handles, c \in Combinators :
           calls < MaxCalls /\ Combine(h, s1, c, s2)
    \/ \E func \in FragOps, value \in MultiValues :
           calls < MaxCalls /\ Len(heap) < MaxHandles /\ FacadeCall(func, value)
    \/ calls < MaxCalls /\ FacadeStringify
    \/ \E s1 \in Handles, s2 \in Handles, c \in Combinators :
           calls < MaxCalls /\ Len(heap) < MaxHandles /\ FacadeCombine(s1, c, s2)

Spec == Init /\ [][Next]_vars

\* a program that starts one chain at the facade and goes on calling the
\* builder it got
ChainNext ==
    \/ \E func \in FragOps, value \in Values :
           calls < MaxChain /\ heap = <<>> /\ FacadeCall(func, value)
    \/ \E h \in Handles, func \in FragOps, value \in Values :
           calls < MaxChain /\ Call(h, func, value)
    \/ \E h \in Handles :
           calls < MaxChain /\ Stringify(h)

ChainSpec == Init /\ [][ChainNext]_vars

\* a program that makes a Rectangle, assigns to its fields and asks its area
RectInit == BuilderInit /\ RectIdle /\ CodecIdle

RectNext ==
    \/ \E width \in Dims, height \in Dims : New(width, height)
    \/ \E width \in Dims : SetWidth(width)
    \/ \E height \in Dims : SetHeight(height)
    \/ GetArea

RectSpec == RectInit /\ [][RectNext]_vars

\* a program that sends plain data through getJSON and fromJSON
RoundTripInit == BuilderInit /\ RectIdle /\ CodecInit

RoundTripNext ==
    \/ Serialize
    \/ Damage
    \/ Deserialize

RoundTripSpec == RoundTripInit /\ [][RoundTripNext]_vars

---------------------------------------------------------------------------
(* The vocabulary of the properties *)

\* the rank of a selector category
Rank(func) ==
    CASE func = "element"       -> 1
      [] func = "id"            -> 2
      [] func = "class"         -> 3
      [] func = "attr"          -> 4
      [] func = "pseudoClass"   -> 5
      [] func = "pseudoElement" -> 6

\* the fragments an object holds in the category of func, in order
FragOf(s, func) ==
    CASE func = "element"       -> IF s.tag = null THEN <<>> ELSE <<s.tag>>
      [] func = "id"            -> IF s.identificator = null THEN <<>>
                                   ELSE <<s.identificator>>
      [] func = "class"         -> s.classes
      [] func = "attr"          -> s.attributes
      [] func = "pseudoClass"   -> s.psClasses
      [] func = "pseudoElement" -> IF s.psElement = null THEN <<>>
                                   ELSE <<s.psElement>>

\* the highest rank among the categories that hold a fragment, 0 if none
HighestRank(s) ==
    LET used == {Rank(f) : f \in {g \in FragOps : FragOf(s, g) # <<>>}}
    IN  IF used = {} THEN 0 ELSE CHOOSE r \in used : \A q \in used : q <= r

\* the empty state of an object
EmptyState ==
    [ tag |-> null, identificator |-> null, psElement |-> null,
      classes |-> <<>>, attributes |-> <<>>, psClasses |-> <<>>,
      selector |-> "", order |-> 0 ]

\* one selector part as CSS writes it
Wrap(func, value) ==
    CASE func = "element"       -> value
      [] func = "id"            -> "#" \o value
      [] func = "class"         -> "." \o value
      [] func = "attr"          -> "[" \o value \o "]"
      [] func = "pseudoClass"   -> ":" \o value
      [] func = "pseudoElement" -> "::" \o value

\* the parts of one category in a history, written out one after the other
RECURSIVE PartsOf(_, _)
PartsOf(lg, func) ==
    IF lg = <<>> THEN ""
    ELSE (IF lg[1][1] = func THEN Wrap(func, lg[1][2]) ELSE "")
         \o PartsOf(Tail(lg), func)

\* the selector string of a history: the categories in the output order
Expected(lg) ==
    PartsOf(lg, "element") \o PartsOf(lg, "attr") \o PartsOf(lg, "id")
    \o PartsOf(lg, "class") \o PartsOf(lg, "pseudoClass")
    \o PartsOf(lg, "pseudoElement")

\* this step is a call, described by ret'
Called == calls' = calls + 1

\* this step is a call of method func on an object that existed before it
CalledOn(h) == Called /\ ~ret'.fresh /\ ret'.this = h

---------------------------------------------------------------------------
(* Properties of a chain of calls on one builder (ChainSpec) *)

\* C1: a fragment call whose rank is strictly less than the highest rank
\* already used on the object raises an error, and its value is not added:
\* the category holds what it held before, or nothing
OrderViolationRejected ==
    [][\A h \in Handles :
          (CalledOn(h) /\ ret'.op \in FragOps
             /\ Rank(ret'.op) < HighestRank(heap[h]))
          => /\ ret'.outcome # "ok"
             /\ FragOf(heap'[h], ret'.op) \in {FragOf(heap[h], ret'.op), <<>>}
             /\ heap'[h].selector \in {heap[h].selector, ""}]_vars

\* id('a').element('b') was rejected by the order check
OrderViolationSeen ==
    /\ ret.op = "element" /\ ret.arg = "b" /\ ret.outcome = "orderError"
    /\ heap[ret.this].identificator = "a"

DuplicateRejected ==
    [][\A h \in Handles :
          (CalledOn(h) /\ ret'.op \in {"element", "id", "pseudoElement"}
             /\ FragOf(heap[h], ret'.op) # <<>>)
          => (ret'.outcome = "onlyOneError" /\ heap'[h] = EmptyState)]_vars

\* a second id was rejected after other calls came between
DuplicateSeen ==
    /\ ret.op = "id" /\ ret.outcome = "onlyOneError"
    /\ heap[ret.this] = EmptyState
    /\ calls >= 3

StringifyResets ==
    [][\A h \in Handles :
          /\ (CalledOn(h) /\ ret'.op = "stringify")
             => (ret'.str = heap[h].selector /\ heap'[h] = EmptyState)
          /\ (CalledOn(h) /\ ret.op = "stringify" /\ ret.this = h
                /\ ~ret.fresh)
             => IF ret'.op = "stringify" THEN ret'.str = ""
                ELSE /\ ret'.outcome = "ok"
                     /\ heap'[h].selector = Wrap(ret'.op, ret'.arg)
                     /\ \A f \in FragOps :
                           FragOf(heap'[h], f) =
                              IF f = ret'.op THEN <<ret'.arg>> ELSE <<>>]_vars

\* a built selector was returned by stringify() and the object is empty
StringifySeen ==
    /\ ret.op = "stringify" /\ ret.str = "a#b::a"
    /\ heap[ret.this] = EmptyState

\* C8: class, attr and pseudoClass called at the rank used last are accepted
\* and append their value at the end of their category, also a value that is
\* already there
EqualRankAppends ==
    [][\A h \in Handles :
          (CalledOn(h) /\ ret'.op \in {"class", "attr", "pseudoClass"}
             /\ Rank(ret'.op) = HighestRank(heap[h]))
          => /\ ret'.outcome = "ok"
             /\ FragOf(heap'[h], ret'.op) =
                   Append(FragOf(heap[h], ret'.op), ret'.arg)]_vars

\* the same attribute was added three times in a row
RepeatedValueSeen ==
    /\ ret.op = "attr" /\ ret.outcome = "ok"
    /\ heap[ret.this].attributes = <<"b", "b", "b">>

---------------------------------------------------------------------------
(* Properties of several builders and the facade (Spec) *)

\* C6: combine on three different objects renders left, then right, empties
\* both, and leaves "<left> <combinator> <right>" as the receiver's string,
\* which a stringify() that follows returns
CombineJoins ==
    [][/\ (Called /\ ret'.op = "combine"
             /\ ret'.left # ret'.right /\ ret'.this # ret'.left
             /\ ret'.this # ret'.right)
          => /\ heap'[ret'.this].selector =
                   heap[ret'.left].selector \o " " \o ret'.arg \o " "
                      \o heap[ret'.right].selector
             /\ heap'[ret'.left] = EmptyState
             /\ heap'[ret'.right] = EmptyState
             /\ ret'.handle = ret'.this
       /\ (Called /\ ret'.op = "stringify" /\ ~ret'.fresh
             /\ ret.op = "combine" /\ ret.this = ret'.this)
          => ret'.str = heap[ret.this].selector]_vars

\* combine(element('a').id('a'), '+', element('a')) was made
CombineSeen ==
    /\ ret.op = "combine" /\ ret.arg = "+"
    /\ Cardinality({ret.this, ret.left, ret.right}) = 3
    /\ heap[ret.this].selector = "a#a + a"

\* C7: a facade call works on a new empty object, so its result is decided
\* by its arguments alone; and a call changes no object but its receiver and
\* the two arguments of combine
FacadeFreshAndFramed ==
    [][/\ (Called /\ ret'.fresh /\ ret'.op \in FragOps)
          => /\ ret'.outcome = "ok"
             /\ ret'.this = Len(heap) + 1
             /\ heap'[ret'.this].selector = Wrap(ret'.op, ret'.arg)
             /\ heap'[ret'.this].order = Rank(ret'.op)
             /\ \A f \in FragOps :
                   FragOf(heap'[ret'.this], f) =
                      IF f = ret'.op THEN <<ret'.arg>> ELSE <<>>
       /\ (Called /\ ret'.fresh /\ ret'.op = "stringify") => ret'.str = ""
       /\ (Called /\ ret'.fresh /\ ret'.op = "combine")
          => /\ ret'.this = Len(heap) + 1
             /\ heap'[ret'.this].order = 0
             /\ \A f \in FragOps : FragOf(heap'[ret'.this], f) = <<>>
       /\ Called
          => \A g \in Handles :
                (g # ret'.this
                   /\ ~(ret'.op = "combine" /\ g \in {ret'.left, ret'.right}))
                => heap'[g] = heap[g]]_vars

\* a facade call was made while two other objects held selectors
FacadeCallBesideOthers ==
    /\ ret.fresh /\ ret.op \in FragOps /\ ret.this = 3
    /\ heap[1].selector # "" /\ heap[2].selector # ""

---------------------------------------------------------------------------
(* Properties of Rectangle (RectSpec) *)

\* C9: getArea() returns width * height of the fields as they are when it is
\* called: the product of the constructor's arguments while no field was
\* assigned, and the product of the new values after an assignment
AreaIsProductOfFields ==
    [][rop' = "getArea"
          => /\ area' = rect.width * rect.height
             /\ rop = "new" => area' = made.width * made.height]_vars

\* getArea() was called after an assignment that changed the product
AreaAfterAssignment ==
    /\ rop = "getArea"
    /\ area = rect.width * rect.height
    /\ area # made.width * made.height

---------------------------------------------------------------------------
(* Properties of getJSON and fromJSON (RoundTripSpec) *)

\* the value of property key (a key of props)
Lookup(props, key) ==
    LET i == CHOOSE j \in 1..Len(props) : props[j].key = key
    IN  props[i].val

KeysOf(props) == {props[i].key : i \in 1..Len(props)}

---------------------------------------------------------------------------
(* Properties of the cached string and the tracked rank (Spec) *)

\* the parts of a sequence of values of one category, one after the other
RECURSIVE WrapAll(_, _)
WrapAll(func, values) ==
    IF values = <<>> THEN ""
    ELSE Wrap(func, values[1]) \o WrapAll(func, Tail(values))

\* the rendering of the fragments an object holds
RenderOf(s) ==
    WrapAll("element", FragOf(s, "element"))
    \o WrapAll("attr", FragOf(s, "attr"))
    \o WrapAll("id", FragOf(s, "id"))
    \o WrapAll("class", FragOf(s, "class"))
    \o WrapAll("pseudoClass", FragOf(s, "pseudoClass"))
    \o WrapAll("pseudoElement", FragOf(s, "pseudoElement"))

\* the cached string of an object is the rendering of its fragments
Current(s) == s.selector = RenderOf(s)

\* this step is a successful fragment call, a stringify() or a duplicate
\* error on object h
MadeCurrent(h) ==
    /\ CalledOn(h)
    /\ \/ ret'.op \in FragOps /\ ret'.outcome \in {"ok", "onlyOneError"}
       \/ ret'.op = "stringify"

\* C11 as stated: in every reachable state the cached string of every object
\* is the rendering of its current fragments
SelectorAlwaysCurrent ==
    \A h \in Handles : Current(heap[h])

\* C11 amended: every call but a combine received by the object keeps the
\* cached string current, and a successful fragment call, a stringify() and
\* a duplicate error make it current; combine leaves the joined string in its
\* receiver, whose fragments it does not render
SelectorCurrentButCombine ==
    [][Called =>
         /\ \A h \in Handles :
               /\ MadeCurrent(h) => Current(heap'[h])
               /\ (heap'[h] # heap[h] /\ ~MadeCurrent(h)
                     /\ ~(ret'.op = "combine" /\ ret'.this = h))
                  => (Current(heap[h]) => Current(heap'[h]))
         /\ (ret'.fresh /\ ret'.op \in FragOps) => Current(heap'[ret'.this])
         /\ (ret'.op = "combine"
               /\ Cardinality({ret'.this, ret'.left, ret'.right}) = 3)
            => heap'[ret'.this].selector =
                  heap[ret'.left].selector \o " " \o ret'.arg \o " "
                     \o heap[ret'.right].selector]_vars

\* an object holds the joined string of a combine and no fragment
JoinedStringSeen ==
    /\ ret.op = "combine"
    /\ heap[ret.this].selector = "a + #a"
    /\ RenderOf(heap[ret.this]) = ""

\* C12: in every reachable state the tracked rank of every object is the
\* highest rank among the categories that hold a fragment, 0 if none does
RankIsHighestUsed ==
    \A h \in Handles : heap[h].order = HighestRank(heap[h])

\* a call was rejected for its rank on an object whose rank is 5
RankKeptAfterRejection ==
    /\ ret.outcome = "orderError"
    /\ heap[ret.this].order = 5
    /\ HighestRank(heap[ret.this]) = 5

\* C17: combine leaves the fragments and the rank of its receiver (an object
\* that is not one of its arguments) as they are; a successful fragment call
\* on the object combine returned then replaces the joined string by the
\* rendering of that object's own fragments, which stringify() returns
CombineKeepsFragments ==
    [][Called =>
         /\ (ret'.op = "combine" /\ ~ret'.fresh
               /\ ret'.this \notin {ret'.left, ret'.right})
            => /\ heap'[ret'.this].order = heap[ret'.this].order
               /\ \A f \in FragOps :
                     FragOf(heap'[ret'.this], f) = FragOf(heap[ret'.this], f)
         /\ (ret.op = "combine" /\ ~ret'.fresh /\ ret'.this = ret.handle
               /\ ret'.op \in FragOps /\ ret'.outcome = "ok")
            => /\ heap'[ret'.this].selector = RenderOf(heap'[ret'.this])
               /\ FragOf(heap'[ret'.this], ret'.op) =
                     Append(FragOf(heap[ret'.this], ret'.op), ret'.arg)
         /\ (ret'.op = "stringify" /\ ~ret'.fresh
               /\ ret.op \in FragOps /\ ret.outcome = "ok"
               /\ ret.this = ret'.this)
            => ret'.str = RenderOf(heap[ret'.this])]_vars

\* the object a facade combine returned took a fragment and holds that part
\* alone: the two objects created before it are the emptied arguments
JoinedStringOverwritten ==
    /\ calls = 4 /\ Len(heap) = 3
    /\ ~ret.fresh /\ ret.this = 3 /\ ret.op = "class" /\ ret.outcome = "ok"
    /\ heap[1] = EmptyState /\ heap[2] = EmptyState
    /\ heap[3].selector = ".a"

\* C18: from one call to the next the tracked rank of an object does not
\* decrease, unless the call empties the object (stringify, also the one
\* combine makes on its arguments, or a duplicate error), which sets it to
\* 0; a call rejected for its rank leaves the rank as it was
RankDecreasesOnlyOnReset ==
    [][Called =>
         \A h \in Handles :
            /\ heap'[h].order < heap[h].order
               => /\ heap'[h].order = 0
                  /\ \/ ret'.op = "stringify" /\ ret'.this = h
                     \/ ret'.outcome = "onlyOneError" /\ ret'.this = h
                     \/ ret'.op = "combine" /\ h \in {ret'.left, ret'.right}
            /\ (ret'.outcome = "orderError" /\ ret'.this = h /\ ~ret'.fresh)
               => heap'[h].order = heap[h].order]_vars

\* an id call was rejected for its rank and the object kept rank 4
RankAfterRejectedId ==
    /\ ret.op = "id" /\ ret.outcome = "orderError"
    /\ heap[ret.this].order = 4

---------------------------------------------------------------------------
(* More properties of a chain of calls on one builder (ChainSpec) *)

\* the selector string of a history in the order of the doc comment,
\* element#id.class[attr]:pseudoClass::pseudoElement
ExpectedInCallOrder(lg) ==
    PartsOf(lg, "element") \o PartsOf(lg, "id") \o PartsOf(lg, "class")
    \o PartsOf(lg, "attr") \o PartsOf(lg, "pseudoClass")
    \o PartsOf(lg, "pseudoElement")

\* C13: stringify() returns the parts in the order in which they must be
\* added: element, #id, .class, [attr], :pseudoClass, ::pseudoElement
StringifyRendersInCallOrder ==
    [][\A h \in Handles :
          (CalledOn(h) /\ ret'.op = "stringify")
          => ret'.str = ExpectedInCallOrder(log[h])]_vars

\* C14: a successful fragment call returns the object it was called on and
\* leaves the fragments of the five other categories as they are
FragmentCallFramed ==
    [][\A h \in Handles :
          (CalledOn(h) /\ ret'.op \in FragOps /\ ret'.outcome = "ok")
          => /\ ret'.handle = h
             /\ \A f \in FragOps \ {ret'.op} :
                   FragOf(heap'[h], f) = FragOf(heap[h], f)
             /\ FragOf(heap'[h], ret'.op) =
                   Append(FragOf(heap[h], ret'.op), ret'.arg)
             /\ heap'[h].order = Rank(ret'.op)]_vars

\* an attribute was added to an object that holds a tag, an id and a class
AttrAddedBesideOthers ==
    /\ ret.op = "attr" /\ ret.outcome = "ok" /\ ret.handle = ret.this
    /\ heap[ret.this].tag = "a" /\ heap[ret.this].identificator = "b"
    /\ heap[ret.this].classes = <<"a">>
    /\ heap[ret.this].attributes = <<"b">>

\* C15: an element, id or pseudoElement call that repeats its category and
\* is also out of rank order raises the duplicate error, not the order
\* error, and leaves the object in the empty state
DuplicateBeforeOrder ==
    [][\A h \in Handles :
          (CalledOn(h) /\ ret'.op \in {"element", "id", "pseudoElement"}
             /\ FragOf(heap[h], ret'.op) # <<>>
             /\ Rank(ret'.op) < HighestRank(heap[h]))
          => (ret'.outcome = "onlyOneError" /\ heap'[h] = EmptyState)]_vars

\* the third call of a chain is an element rejected as a repetition: the
\* first call set the tag and the second added a part of a higher rank
DuplicateOutOfOrderSeen ==
    /\ calls = 3
    /\ ret.op = "element" /\ ret.outcome = "onlyOneError"
    /\ heap[ret.this] = EmptyState

\* C16: a fragment call that raises an error leaves the object either
\* exactly as it was before the call or exactly in the empty state
FailedCallAllOrNothing ==
    [][\A h \in Handles :
          (CalledOn(h) /\ ret'.op \in FragOps /\ ret'.outcome # "ok")
          => heap'[h] \in {heap[h], EmptyState}]_vars

\* a class call with a value the object does not hold was rejected, and the
\* object holds what it held
RejectedValueAbsent ==
    /\ ret.op = "class" /\ ret.arg = "b" /\ ret.outcome = "orderError"
    /\ heap[ret.this].classes = <<"a">>
    /\ heap[ret.this].psClasses = <<"a">>

====
